---- MODULE Spec2Model ----
(***************************************************************************)
(* A model of apple_mail_mcp.py: the line-delimited request loop (main),   *)
(* the dispatcher (handle_request) and the six tools of                    *)
(* AppleMailMCPServer, run against a small envelope database.              *)
(*                                                                         *)
(* Representation.  A Python str is a sequence of one-character strings,   *)
(* so that LIKE, strptime and the rendering of timestamps are computed     *)
(* and not assumed.  A nullable value (a SQL NULL, a Python None, an       *)
(* absent argument) is <<>> and a present value v is <<v>>.  A result text *)
(* is a sequence of lines; a line is [label, text]: the fixed part of the  *)
(* f-string and the interpolated part.                                     *)
(***************************************************************************)
EXTENDS Integers, Sequences, FiniteSets, TLC

(***************************************************************************)
(* Text                                                                    *)
(***************************************************************************)
NULL == <<>>

Some(v) == <<v>>

IsNull(o) == o = <<>>

Val(o) == o[1]

UpperLetters == <<"A", "B", "C", "D", "E", "F", "G", "H", "I", "J", "K", "L", "M",
                  "N", "O", "P", "Q", "R", "S", "T", "U", "V", "W", "X", "Y", "Z">>

LowerLetters == <<"a", "b", "c", "d", "e", "f", "g", "h", "i", "j", "k", "l", "m",
                  "n", "o", "p", "q", "r", "s", "t", "u", "v", "w", "x", "y", "z">>

DigitChars == <<"0", "1", "2", "3", "4", "5", "6", "7", "8", "9">>

\* str.lower() and the case folding of LIKE, on one ASCII character
LowerChar(c) ==
    IF \E i \in 1..26 : UpperLetters[i] = c
    THEN LowerLetters[CHOOSE i \in 1..26 : UpperLetters[i] = c]
    ELSE c

Lower(s) == [i \in 1..Len(s) |-> LowerChar(s[i])]

\* Python's `needle in hay`
Contains(hay, needle) ==
    \E i \in 0..(Len(hay) - Len(needle)) :
        SubSeq(hay, i + 1, i + Len(needle)) = needle

IsDigit(c) == \E i \in 1..10 : DigitChars[i] = c

DigitVal(c) == (CHOOSE i \in 1..10 : DigitChars[i] = c) - 1

RECURSIVE NatDigits(_)
NatDigits(n) ==
    IF n < 10 THEN <<DigitChars[n + 1]>>
    ELSE NatDigits(n \div 10) \o <<DigitChars[(n % 10) + 1]>>

\* str(n) of an integer, which is also SQLite's text rendering of an INTEGER
IntText(n) == IF n < 0 THEN <<"-">> \o NatDigits(0 - n) ELSE NatDigits(n)

Pad2(n) == <<DigitChars[(n \div 10) + 1], DigitChars[(n % 10) + 1]>>

Pad4(n) == Pad2(n \div 100) \o Pad2(n % 100)

NoneText == <<"N", "o", "n", "e">>

\* A value of a row or a bound parameter, tagged: NULL/None, INTEGER/int, TEXT/str
NullCell == [t |-> "null", i |-> 0, s |-> <<>>]

IntCell(n) == [t |-> "int", i |-> n, s |-> <<>>]

TextCell(x) == [t |-> "text", i |-> 0, s |-> x]

OptInt(o) == IF IsNull(o) THEN NullCell ELSE IntCell(Val(o))

OptText(o) == IF IsNull(o) THEN NullCell ELSE TextCell(Val(o))

\* f"{v}": None prints as None
PyStr(c) == IF c.t = "null" THEN NoneText ELSE IF c.t = "int" THEN IntText(c.i) ELSE c.s

\* bool(v): None, 0 and "" are false
Truthy(c) == (c.t = "int" /\ c.i # 0) \/ (c.t = "text" /\ c.s # <<>>)

\* f"{v or placeholder}"
OrPlaceholder(c, placeholder) == IF Truthy(c) THEN PyStr(c) ELSE placeholder

\* SQLite's LIKE: % matches any run, _ any one character, letters fold case
RECURSIVE LikeMatch(_, _)
LikeMatch(s, p) ==
    IF p = <<>> THEN s = <<>>
    ELSE IF Head(p) = "%"
         THEN LikeMatch(s, Tail(p)) \/ (s # <<>> /\ LikeMatch(Tail(s), p))
         ELSE /\ s # <<>>
              /\ (Head(p) = "_" \/ LowerChar(Head(s)) = LowerChar(Head(p)))
              /\ LikeMatch(Tail(s), Tail(p))

\* f"%{text}%", the parameter bound to every LIKE of the program
LikePattern(text) == <<"%">> \o text \o <<"%">>

\* `value LIKE ?`: an INTEGER is matched as its text; NULL LIKE x is NULL, which
\* no WHERE accepts
SqlLike(c, pattern) == c.t # "null" /\ LikeMatch(PyStr(c), pattern)

\* `value >= ?` and `value < ?` against an integer parameter: NULL compares to
\* NULL (not accepted), and SQLite orders every TEXT after every number
SqlGE(c, n) == (c.t = "int" /\ c.i >= n) \/ c.t = "text"

\* SqlLT as `value <= ?`: the variant C15 is tested against
SqlLT_Inclusive(c, n) == c.t = "int" /\ c.i <= n

SqlLT(c, n) == c.t = "int" /\ c.i < n

(***************************************************************************)
(* Dates                                                                   *)
(***************************************************************************)
SecondsPerDay == 24 * 60 * 60

IsLeap(y) == (y % 4 = 0 /\ y % 100 # 0) \/ y % 400 = 0

DaysInMonth(y, m) ==
    IF m = 2 THEN (IF IsLeap(y) THEN 29 ELSE 28)
    ELSE IF m \in {4, 6, 9, 11} THEN 30 ELSE 31

\* days from 1970-01-01 to the civil date y-m-d (proleptic Gregorian)
DaysFromCivil(y, m, d) ==
    LET yy  == IF m <= 2 THEN y - 1 ELSE y
        era == yy \div 400
        yoe == yy - era * 400
        mp  == IF m > 2 THEN m - 3 ELSE m + 9
        doy == (153 * mp + 2) \div 5 + d - 1
        doe == yoe * 365 + yoe \div 4 - yoe \div 100 + doy
    IN  era * 146097 + doe - 719468

\* the civil date <<y, m, d>> of a day number
CivilFromDays(z) ==
    LET zz  == z + 719468
        era == zz \div 146097
        doe == zz - era * 146097
        yoe == (doe - doe \div 1460 + doe \div 36524 - doe \div 146096) \div 365
        doy == doe - (365 * yoe + yoe \div 4 - yoe \div 100)
        mp  == (5 * doy + 2) \div 153
        d   == doy - (153 * mp + 2) \div 5 + 1
        m   == IF mp < 10 THEN mp + 3 ELSE mp - 9
        y   == yoe + era * 400
    IN  <<IF m <= 2 THEN y + 1 ELSE y, m, d>>

\* SQLite's datetime(ts, 'unixepoch'): "YYYY-MM-DD HH:MM:SS" in UTC, NULL for NULL
SqlDatetime(c) ==
    IF c.t # "int" THEN NullCell
    ELSE LET ts  == c.i
             ymd == CivilFromDays(ts \div SecondsPerDay)
             sod == ts % SecondsPerDay
         IN  TextCell(Pad4(ymd[1]) \o <<"-">> \o Pad2(ymd[2]) \o <<"-">> \o Pad2(ymd[3])
                  \o <<" ">> \o Pad2(sod \div 3600) \o <<":">>
                  \o Pad2((sod % 3600) \div 60) \o <<":">> \o Pad2(sod % 60))

\* the regex of %m: 1[0-2] | 0[1-9] | [1-9]; the length matched at s[i], or 0
MonthLen(s, i) ==
    IF i + 1 <= Len(s) /\ s[i] = "1" /\ s[i + 1] \in {"0", "1", "2"}
       /\ i + 2 <= Len(s) /\ s[i + 2] = "-" THEN 2
    ELSE IF i + 1 <= Len(s) /\ s[i] = "0" /\ IsDigit(s[i + 1]) /\ s[i + 1] # "0"
            /\ i + 2 <= Len(s) /\ s[i + 2] = "-" THEN 2
    ELSE IF i + 1 <= Len(s) /\ IsDigit(s[i]) /\ s[i] # "0" /\ s[i + 1] = "-" THEN 1
    ELSE 0

\* the regex of %d: 3[01] | [12]\d | 0[1-9] | [1-9] | " "[1-9], first alternative
\* that matches at s[i]; its length, or 0
DayLen(s, i) ==
    IF i + 1 <= Len(s) /\ s[i] = "3" /\ s[i + 1] \in {"0", "1"} THEN 2
    ELSE IF i + 1 <= Len(s) /\ s[i] \in {"1", "2"} /\ IsDigit(s[i + 1]) THEN 2
    ELSE IF i + 1 <= Len(s) /\ s[i] = "0" /\ IsDigit(s[i + 1]) /\ s[i + 1] # "0" THEN 2
    ELSE IF i <= Len(s) /\ IsDigit(s[i]) /\ s[i] # "0" THEN 1
    ELSE IF i + 1 <= Len(s) /\ s[i] = " " /\ IsDigit(s[i + 1]) /\ s[i + 1] # "0" THEN 2
    ELSE 0

RECURSIVE DigitsVal(_)
DigitsVal(s) ==
    IF s = <<>> THEN 0
    ELSE IF IsDigit(s[Len(s)])
         THEN DigitsVal(SubSeq(s, 1, Len(s) - 1)) * 10 + DigitVal(s[Len(s)])
         ELSE DigitsVal(SubSeq(s, 1, Len(s) - 1))

\* datetime.strptime(s, "%Y-%m-%d"): Some(<<y, m, d>>), or NULL where it raises
\* ValueError (no match, unconverted data, a day the month does not have)
Strptime(s) ==
    IF ~(Len(s) >= 8 /\ (\A i \in 1..4 : IsDigit(s[i])) /\ s[5] = "-") THEN NULL
    ELSE LET ml == MonthLen(s, 6)
             ds == 6 + ml + 1
             dl == DayLen(s, ds)
             y  == DigitsVal(SubSeq(s, 1, 4))
             m  == DigitsVal(SubSeq(s, 6, 5 + ml))
             d  == DigitsVal(SubSeq(s, ds, ds + dl - 1))
         IN  IF ml = 0 \/ dl = 0 \/ Len(s) # ds + dl - 1 THEN NULL
             ELSE IF y < 1 \/ d > DaysInMonth(y, m) THEN NULL
             ELSE Some(<<y, m, d>>)

\* int(datetime(y, m, d).timestamp()) of a naive datetime: local midnight, as
\* seconds since the epoch; utcoffset is the local zone's offset east of UTC
LocalTimestamp(ymd, utcoffset) ==
    DaysFromCivil(ymd[1], ymd[2], ymd[3]) * SecondsPerDay - utcoffset

(***************************************************************************)
(* Configuration (lines 20-49) and the names the program uses              *)
(***************************************************************************)
PRIMARY_EMAIL_ADDRESS ==
    <<"y", "o", "u", "r", ".", "e", "m", "a", "i", "l", "@",
      "e", "x", "a", "m", "p", "l", "e", ".", "c", "o", "m">>

MAIL_VERSION == <<"V", "1", "0">>

\* str(self._get_envelope_db_path()), with the home directory written ~
DbPathText ==
    <<"~", "/", "L", "i", "b", "r", "a", "r", "y", "/", "M", "a", "i", "l", "/">>
    \o MAIL_VERSION
    \o <<"/", "M", "a", "i", "l", "D", "a", "t", "a", "/",
         "E", "n", "v", "e", "l", "o", "p", "e", " ", "I", "n", "d", "e", "x">>

t_addresses == <<"a", "d", "d", "r", "e", "s", "s", "e", "s">>

t_mailboxes == <<"m", "a", "i", "l", "b", "o", "x", "e", "s">>

t_messages == <<"m", "e", "s", "s", "a", "g", "e", "s">>

t_recipients == <<"r", "e", "c", "i", "p", "i", "e", "n", "t", "s">>

t_sender_addresses ==
    <<"s", "e", "n", "d", "e", "r", "_", "a", "d", "d", "r", "e", "s", "s", "e", "s">>

t_subjects == <<"s", "u", "b", "j", "e", "c", "t", "s">>

t_sqlite_master == <<"s", "q", "l", "i", "t", "e", "_", "m", "a", "s", "t", "e", "r">>

c_address == <<"a", "d", "d", "r", "e", "s", "s">>

c_comment == <<"c", "o", "m", "m", "e", "n", "t">>

c_url == <<"u", "r", "l">>

c_message_id == <<"m", "e", "s", "s", "a", "g", "e", "_", "i", "d">>

c_sender == <<"s", "e", "n", "d", "e", "r">>

c_subject == <<"s", "u", "b", "j", "e", "c", "t">>

c_date_sent == <<"d", "a", "t", "e", "_", "s", "e", "n", "t">>

c_date_received == <<"d", "a", "t", "e", "_", "r", "e", "c", "e", "i", "v", "e", "d">>

c_mailbox == <<"m", "a", "i", "l", "b", "o", "x">>

c_message == <<"m", "e", "s", "s", "a", "g", "e">>

c_type == <<"t", "y", "p", "e">>

c_recipients == <<"r", "e", "c", "i", "p", "i", "e", "n", "t", "s">>

c_to_recipients == <<"t", "o", "_", "r", "e", "c", "i", "p", "i", "e", "n", "t", "s">>

c_ROWID == <<"R", "O", "W", "I", "D">>

c_name == <<"n", "a", "m", "e">>

s_date == <<"d", "a", "t", "e">>

ty_INTEGER == <<"I", "N", "T", "E", "G", "E", "R">>

ty_TEXT == <<"T", "E", "X", "T">>

NoSubjectText == <<"(", "n", "o", " ", "s", "u", "b", "j", "e", "c", "t", ")">>

UnknownText == <<"(", "u", "n", "k", "n", "o", "w", "n", ")">>

\* the marker columns of search_all_tables (line 436), in the order tested
MarkerColumns == <<c_subject, c_sender, c_date_received, c_date_sent, c_message_id>>

\* the tables examine_database samples (line 374)
InterestingTables == {t_messages, t_mailboxes, t_subjects, t_addresses}

(***************************************************************************)
(* The envelope database the tools read.  The program never writes it.     *)
(* The catalog is the trimmed layout of a V10 "Envelope Index": messages   *)
(* refer to subjects, senders and mailboxes by row id.                     *)
(***************************************************************************)
\* sqlite_master's tables in name order, each with PRAGMA table_info's
\* <<name, declared type>> in catalog order
Catalog ==
    << [name |-> t_addresses,
        cols |-> << <<c_address, ty_TEXT>>, <<c_comment, ty_TEXT>> >>],
       [name |-> t_mailboxes,
        cols |-> << <<c_url, ty_TEXT>> >>],
       [name |-> t_messages,
        cols |-> << <<c_message_id, ty_INTEGER>>, <<c_sender, ty_INTEGER>>,
                    <<c_subject, ty_INTEGER>>, <<c_date_sent, ty_INTEGER>>,
                    <<c_date_received, ty_INTEGER>>, <<c_mailbox, ty_INTEGER>> >>],
       [name |-> t_recipients,
        cols |-> << <<c_message, ty_INTEGER>>, <<c_address, ty_INTEGER>>,
                    <<c_type, ty_INTEGER>> >>],
       [name |-> t_sender_addresses,
        cols |-> << <<c_address, ty_INTEGER>>, <<c_sender, ty_INTEGER>> >>],
       [name |-> t_subjects,
        cols |-> << <<c_subject, ty_TEXT>> >>] >>

MaxMsgs == 2

\* local midnight of 2024-03-01 in UTC, the day the date filters of the model name
DayStart == DaysFromCivil(2024, 3, 1) * SecondsPerDay

adr_a == <<"a", "@", "b", ".", "c">>

adr_t == <<"t", "@", "b", ".", "c">>

sub_Inv == <<"I", "n", "v">>

sub_inv2 == <<"i", "n", "v", "2">>

sub_Hi == <<"H", "i">>

url_inbox == <<"i", "m", "a", "p", ":", "/", "/", "a", "/", "I", "N", "B", "O", "X">>

\* the rows a messages table of the model is drawn from: every column a
\* nullable integer
MessagePool ==
    << [message_id |-> Some(11), sender |-> Some(7), subject |-> Some(1),
        date_sent |-> Some(DayStart), date_received |-> Some(DayStart + 60),
        mailbox |-> Some(1)],
       [message_id |-> Some(12), sender |-> Some(8), subject |-> Some(3),
        date_sent |-> Some(DayStart - 1), date_received |-> Some(DayStart + 5),
        mailbox |-> NULL],
       [message_id |-> NULL, sender |-> NULL, subject |-> NULL,
        date_sent |-> Some(DayStart + SecondsPerDay), date_received |-> NULL,
        mailbox |-> Some(1)],
       [message_id |-> Some(14), sender |-> Some(7), subject |-> Some(2),
        date_sent |-> Some(DayStart + SecondsPerDay - 1),
        date_received |-> Some(DayStart + SecondsPerDay), mailbox |-> Some(1)],
       [message_id |-> Some(15), sender |-> Some(7), subject |-> Some(9),
        date_sent |-> NULL, date_received |-> Some(DayStart - SecondsPerDay),
        mailbox |-> Some(5)],
       [message_id |-> Some(16), sender |-> Some(7), subject |-> Some(1),
        date_sent |-> Some(DayStart + SecondsPerDay),
        date_received |-> Some(DayStart + SecondsPerDay + 60), mailbox |-> Some(1)] >>

\* the rows of the pool at the indices of S, in pool order
PoolRows(S) ==
    LET ks == SelectSeq([k \in 1..Len(MessagePool) |-> k], LAMBDA k : k \in S)
    IN  [j \in 1..Len(ks) |-> MessagePool[ks[j]]]

\* the messages tables of the model: at most MaxMsgs rows of the pool
MessageTables ==
    { PoolRows(S) : S \in { T \in SUBSET (1..Len(MessagePool)) : Cardinality(T) <= MaxMsgs } }

\* the address books of the model: addresses by row id, and the
\* <<sender, address>> rows of sender_addresses
AddressBooks ==
    { [addresses |-> <<adr_a, adr_t>>, sender_addresses |-> << <<7, 1>>, <<8, 1>> >>],
      [addresses |-> <<adr_a, adr_t>>, sender_addresses |-> <<>>],
      [addresses |-> <<adr_t>>,        sender_addresses |-> <<>>] }

\* the databases of the model.  exists: the file is there; corrupt: it is there
\* and is no SQLite database, so every statement raises; version_dir: the
\* V10 directory is there (it is whenever the file is)
Databases ==
    { [exists |-> FALSE, corrupt |-> FALSE, version_dir |-> v,
       addresses |-> <<>>, sender_addresses |-> <<>>, subjects |-> <<>>,
       mailboxes |-> <<>>, recipients |-> <<>>, messages |-> <<>>] : v \in BOOLEAN }
    \cup
    { [exists |-> TRUE, corrupt |-> TRUE, version_dir |-> TRUE,
       addresses |-> <<>>, sender_addresses |-> <<>>, subjects |-> <<>>,
       mailboxes |-> <<>>, recipients |-> <<>>, messages |-> <<>>] }
    \cup
    { [exists |-> TRUE, corrupt |-> FALSE, version_dir |-> TRUE,
       addresses |-> b.addresses, sender_addresses |-> b.sender_addresses,
       subjects |-> <<sub_Inv, sub_inv2, sub_Hi>>,
       mailboxes |-> <<url_inbox>>,
       recipients |-> << <<1, 2, 1>>, <<1, 1, 2>>, <<2, 3, 1>> >>,
       messages |-> m] : b \in AddressBooks, m \in MessageTables }

(***************************************************************************)
(* SQLite, as far as the statements of the program use it                  *)
(***************************************************************************)
HasTable(t) == \E k \in 1..Len(Catalog) : Catalog[k].name = t

TableOf(t) == Catalog[CHOOSE k \in 1..Len(Catalog) : Catalog[k].name = t]

\* [col[1] for col in PRAGMA table_info(t)]
ColumnNames(t) == [k \in 1..Len(TableOf(t).cols) |-> TableOf(t).cols[k][1]]

InSeq(x, q) == \E k \in 1..Len(q) : q[k] = x

\* the rows of a table in scan (row id) order: [rowid, cells], cells a function
\* from the table's column names to tagged values
TableRows(db, t) ==
    IF t = t_addresses THEN
        [k \in 1..Len(db.addresses) |->
            [rowid |-> k,
             cells |-> (c_address :> TextCell(db.addresses[k])) @@ (c_comment :> NullCell)]]
    ELSE IF t = t_mailboxes THEN
        [k \in 1..Len(db.mailboxes) |->
            [rowid |-> k, cells |-> (c_url :> TextCell(db.mailboxes[k]))]]
    ELSE IF t = t_subjects THEN
        [k \in 1..Len(db.subjects) |->
            [rowid |-> k, cells |-> (c_subject :> TextCell(db.subjects[k]))]]
    ELSE IF t = t_sender_addresses THEN
        [k \in 1..Len(db.sender_addresses) |->
            [rowid |-> k,
             cells |-> (c_sender :> IntCell(db.sender_addresses[k][1]))
                       @@ (c_address :> IntCell(db.sender_addresses[k][2]))]]
    ELSE IF t = t_recipients THEN
        [k \in 1..Len(db.recipients) |->
            [rowid |-> k,
             cells |-> (c_message :> IntCell(db.recipients[k][1]))
                       @@ (c_address :> IntCell(db.recipients[k][2]))
                       @@ (c_type :> IntCell(db.recipients[k][3]))]]
    ELSE IF t = t_messages THEN
        [k \in 1..Len(db.messages) |->
            [rowid |-> k,
             cells |-> (c_message_id :> OptInt(db.messages[k].message_id))
                       @@ (c_sender :> OptInt(db.messages[k].sender))
                       @@ (c_subject :> OptInt(db.messages[k].subject))
                       @@ (c_date_sent :> OptInt(db.messages[k].date_sent))
                       @@ (c_date_received :> OptInt(db.messages[k].date_received))
                       @@ (c_mailbox :> OptInt(db.messages[k].mailbox))]]
    ELSE <<>>

\* the value of a column of a row; ROWID names the row id
CellOf(row, col) == IF col = c_ROWID THEN IntCell(row.rowid) ELSE row.cells[col]

\* One predicate of a WHERE clause as the program writes it.  conn is how the
\* text joins it to what is before it ("" for the first, "AND", "OR"); marks is
\* the number of ? in its text; args are the parameters the program binds to it.
\* kind is "eq" (col = ?), "eq1" (col = 1), "in" (col IN (?,...)), "range"
\* (col >= ? AND col < ?), "like" (col LIKE ?) or "dtlike"
\* (datetime(col, 'unixepoch') LIKE ?).
Atom(conn, kind, col, marks, args) ==
    [conn |-> conn, kind |-> kind, col |-> col, marks |-> marks, args |-> args]

AtomHolds(a, row) ==
    LET c == CellOf(row, a.col)
    IN  IF a.kind = "eq" THEN c.t # "null" /\ c = a.args[1]
        ELSE IF a.kind = "eq1" THEN c = IntCell(1)
        ELSE IF a.kind = "in" THEN
            c.t # "null" /\ \E k \in 1..a.marks : k <= Len(a.args) /\ a.args[k] = c
        ELSE IF a.kind = "range" THEN SqlGE(c, a.args[1].i) /\ SqlLT(c, a.args[2].i)
        ELSE IF a.kind = "like" THEN SqlLike(c, a.args[1].s)
        ELSE IF a.kind = "dtlike" THEN SqlLike(SqlDatetime(c), a.args[1].s)
        ELSE FALSE

\* SQL's reading of `a1 AND a2 OR a3 ...`: AND binds tighter than OR.  No
\* statement of the program negates, so a NULL truth value acts as false.
RECURSIVE WhereFrom(_, _, _, _)
WhereFrom(where, k, cur, row) ==
    IF k > Len(where) THEN cur
    ELSE IF where[k].conn = "OR"
         THEN cur \/ WhereFrom(where, k + 1, AtomHolds(where[k], row), row)
         ELSE WhereFrom(where, k + 1, cur /\ AtomHolds(where[k], row), row)

WhereHolds(where, row) == WhereFrom(where, 1, TRUE, row)

RECURSIVE SelectRows(_, _)
SelectRows(rows, where) ==
    IF rows = <<>> THEN <<>>
    ELSE (IF WhereHolds(where, Head(rows)) THEN <<Head(rows)>> ELSE <<>>)
         \o SelectRows(Tail(rows), where)

\* ORDER BY ... DESC on one key: NULL sorts below every value
CellBelow(a, b) ==
    (a.t = "null" /\ b.t # "null") \/ (a.t = "int" /\ b.t = "int" /\ a.i < b.i)

\* row x sorts strictly after row y under ORDER BY keys[1] DESC, keys[2] DESC, ...
RECURSIVE SortsAfter(_, _, _)
SortsAfter(x, y, keys) ==
    IF keys = <<>> THEN FALSE
    ELSE \/ CellBelow(CellOf(x, Head(keys)), CellOf(y, Head(keys)))
         \/ (CellOf(x, Head(keys)) = CellOf(y, Head(keys))
             /\ SortsAfter(x, y, Tail(keys)))

RECURSIVE InsertRow(_, _, _)
InsertRow(sorted, x, keys) ==
    IF sorted = <<>> THEN <<x>>
    ELSE IF SortsAfter(Head(sorted), x, keys) THEN <<x>> \o sorted
    ELSE <<Head(sorted)>> \o InsertRow(Tail(sorted), x, keys)

\* ORDER BY keys DESC; rows with equal keys keep their scan order (the order
\* SQLite's sorter produces)
RECURSIVE OrderByDesc(_, _)
OrderByDesc(rows, keys) ==
    IF rows = <<>> THEN <<>>
    ELSE InsertRow(OrderByDesc(SubSeq(rows, 1, Len(rows) - 1), keys),
                   rows[Len(rows)], keys)

\* LIMIT ?: a negative limit is no limit
LimitRows(rows, n) ==
    IF n < 0 \/ n >= Len(rows) THEN rows ELSE SubSeq(rows, 1, n)

\* A statement as cursor.execute receives it: the table it reads, the tables it
\* joins, the <<table, column>> pairs its text names, its WHERE clause, its
\* ORDER BY keys, the parameter bound to LIMIT ? (<<>> when it has none) and the
\* number of a literal LIMIT (cap, <<>> when it has none).
\* verb is "SELECT", "COUNT" (SELECT COUNT(*)), "PRAGMA" (table_info), or
\* "TABLES" or "VIEWS" (the two readings of sqlite_master).
Statement(verb, table, joins, names, where, order, limit, cap) ==
    [verb |-> verb, table |-> table, joins |-> joins, names |-> names,
     where |-> where, order |-> order, limit |-> limit, cap |-> cap]

RECURSIVE WhereParams(_)
WhereParams(where) ==
    IF where = <<>> THEN <<>> ELSE Head(where).args \o WhereParams(Tail(where))

\* the parameter list passed to cursor.execute
Params(st) == WhereParams(st.where) \o st.limit

RECURSIVE WhereMarks(_)
WhereMarks(where) ==
    IF where = <<>> THEN 0 ELSE Head(where).marks + WhereMarks(Tail(where))

\* the number of ? in the statement's text
Marks(st) == WhereMarks(st.where) + Len(st.limit)

ErrNotADatabase ==
    <<"f", "i", "l", "e", " ", "i", "s", " ", "n", "o", "t", " ", "a", " ",
      "d", "a", "t", "a", "b", "a", "s", "e">>

ErrNoSuchTable == <<"n", "o", " ", "s", "u", "c", "h", " ", "t", "a", "b", "l", "e">>

ErrNoSuchColumn == <<"n", "o", " ", "s", "u", "c", "h", " ", "c", "o", "l", "u", "m", "n">>

ErrBindings ==
    <<"I", "n", "c", "o", "r", "r", "e", "c", "t", " ", "n", "u", "m", "b", "e", "r", " ",
      "o", "f", " ", "b", "i", "n", "d", "i", "n", "g", "s">>

ErrDatatypeMismatch ==
    <<"d", "a", "t", "a", "t", "y", "p", "e", " ", "m", "i", "s", "m", "a", "t", "c", "h">>

\* str(e) of the exception cursor.execute raises for a statement, <<>> when it
\* raises none: the file is no database, a table or a column the text names is
\* not in the catalog, the ? and the parameters differ in number, or LIMIT is
\* bound to a value that is no integer
ExecuteError(db, st) ==
    IF db.corrupt THEN ErrNotADatabase
    ELSE IF st.verb \in {"TABLES", "VIEWS", "PRAGMA"} THEN <<>>
    ELSE IF ~HasTable(st.table) \/ (\E k \in 1..Len(st.joins) : ~HasTable(st.joins[k]))
         THEN ErrNoSuchTable
    ELSE IF \E n \in st.names : n[2] # c_ROWID /\ ~InSeq(n[2], ColumnNames(n[1]))
         THEN ErrNoSuchColumn
    ELSE IF Marks(st) # Len(Params(st)) THEN ErrBindings
    ELSE IF st.limit # <<>> /\ st.limit[1].t # "int" THEN ErrDatatypeMismatch
    ELSE <<>>

\* ORDER BY of a statement: none keeps the scan order
Ordered(st, rows) == IF st.order = <<>> THEN rows ELSE OrderByDesc(rows, st.order)

\* the literal LIMIT and the bound LIMIT ? of a statement
Limited(st, rows) ==
    LimitRows(IF st.cap = <<>> THEN rows ELSE LimitRows(rows, st.cap[1]),
              IF st.limit = <<>> THEN -1 ELSE st.limit[1].i)

\* the rows a single-table SELECT fetches
FetchAll(db, st) ==
    Limited(st, Ordered(st, SelectRows(TableRows(db, st.table), st.where)))

(***************************************************************************)
(* The tools.  A call of a tool yields                                     *)
(*   text    the string it returns, as lines (<<>> when it raises)         *)
(*   raised  <<>>, or <<str(e)>> of the exception that leaves it           *)
(*   log     the statements it passed to cursor.execute, in order          *)
(*   opened  the connections it opened with sqlite3.connect                *)
(*   closed  the connections it closed with conn.close()                   *)
(***************************************************************************)
DefaultLimit == 10

Line(label, parts) == [label |-> label, parts |-> parts]

Blank == Line("", <<>>)

Returned(text, log, opened, closed) ==
    [text |-> text, raised |-> <<>>, log |-> log, opened |-> opened, closed |-> closed]

ErrNoGet ==
    <<"'", "l", "i", "s", "t", "'", " ", "o", "b", "j", "e", "c", "t", " ", "h", "a", "s",
      " ", "n", "o", " ", "a", "t", "t", "r", "i", "b", "u", "t", "e", " ", "'", "g", "e",
      "t", "'">>

\* args.get(...) on arguments that are no mapping: AttributeError, before any try
RaisedNoGet ==
    [text |-> <<>>, raised |-> <<ErrNoGet>>, log |-> <<>>, opened |-> 0, closed |-> 0]

RECURSIVE Concat(_)
Concat(ss) == IF ss = <<>> THEN <<>> ELSE Head(ss) \o Concat(Tail(ss))

\* sep.join(parts)
RECURSIVE Join(_, _)
Join(parts, sep) ==
    IF parts = <<>> THEN <<>>
    ELSE IF Len(parts) = 1 THEN parts[1]
    ELSE parts[1] \o sep \o Join(Tail(parts), sep)

\* args.get(key, default) of a str argument
GetText(o, default) == IF IsNull(o) THEN default ELSE Val(o)

\* args.get("limit", 10)
GetLimit(args) == IF IsNull(args.limit) THEN IntCell(DefaultLimit) ELSE Val(args.limit)

\* the string every database tool returns when db_path.exists() is false
NotFoundLines ==
    << Line("Envelope database not found at: {}", <<DbPathText>>),
       Line("Please check MAIL_DIRECTORY and MAIL_VERSION configuration", <<>>) >>

\* the entries of the version directory: <<name, is_dir>>
VersionDirItems ==
    << << <<"M", "a", "i", "l", "D", "a", "t", "a">>, TRUE >>,
       << <<".", "D", "S">>, TRUE >>,
       << <<"A", "B", "C", "-", "1">>, TRUE >>,
       << <<"x", ".", "p", "l", "i", "s", "t">>, FALSE >> >>

list_accounts(db) ==
    Returned(
        IF db.version_dir
        THEN <<Line("Mail accounts found in {}:", <<MAIL_VERSION>>)>>
             \o Concat([k \in 1..Len(VersionDirItems) |->
                    IF VersionDirItems[k][2] /\ Head(VersionDirItems[k][1]) # "."
                    THEN <<Line("  - {}", <<VersionDirItems[k][1]>>)>>
                    ELSE <<>>])
        ELSE << Line("No {} mail directory found", <<MAIL_VERSION>>),
                Line("Searched in: {}", << <<"~", "/", "L", "i", "b", "r", "a", "r", "y",
                                             "/", "M", "a", "i", "l">> >>),
                Line("Try updating MAIL_VERSION in configuration (common values: V10, V9, V8)",
                     <<>>) >>,
        <<>>, 0, 0)

\* the statement of search_emails (lines 294-312)
SearchEmailsStatement(query, limit) ==
    Statement("SELECT", t_messages, <<>>,
              { <<t_messages, c_ROWID>>, <<t_messages, c_subject>>,
                <<t_messages, c_sender>>, <<t_messages, c_date_received>> },
              IF query # <<>>
              THEN << Atom("", "like", c_subject, 1, <<TextCell(LikePattern(query))>>),
                      Atom("OR", "like", c_sender, 1, <<TextCell(LikePattern(query))>>) >>
              ELSE <<>>,
              <<c_date_received>>, <<limit>>, <<>>)

SearchEmailsBlock(msg) ==
    << Line("ID: {}", <<IntText(msg.rowid)>>),
       Line("Subject: {}", <<OrPlaceholder(CellOf(msg, c_subject), NoSubjectText)>>),
       Line("From: {}", <<OrPlaceholder(CellOf(msg, c_sender), UnknownText)>>),
       Line("Date: {}", <<PyStr(SqlDatetime(CellOf(msg, c_date_received)))>>),
       Line("---", <<>>) >>

\* search_emails from `messages = cursor.fetchall()` on (lines 314-328)
SearchEmailsReport(st, messages) ==
    Returned(IF messages = <<>> THEN <<Line("No messages found", <<>>)>>
             ELSE <<Line("Found {} messages:", <<IntText(Len(messages))>>), Blank>>
                  \o Concat([k \in 1..Len(messages) |-> SearchEmailsBlock(messages[k])]),
             <<st>>, 1, 1)

\* search_emails from sqlite3.connect on (lines 288-331)
SearchEmailsRun(db, st) ==
    IF ExecuteError(db, st) # <<>>
    THEN Returned(<<Line("Database error: {}", <<ExecuteError(db, st)>>)>>, <<st>>, 1, 0)
    ELSE SearchEmailsReport(st, FetchAll(db, st))

search_emails(db, args) ==
    IF ~args.mapping THEN RaisedNoGet
    ELSE IF ~db.exists THEN Returned(NotFoundLines, <<>>, 0, 0)
    ELSE SearchEmailsRun(db, SearchEmailsStatement(GetText(args.query, <<>>), GetLimit(args)))

\* SELECT name FROM sqlite_master WHERE type='table' ORDER BY name
TablesStatement == Statement("TABLES", t_sqlite_master, <<>>, {}, <<>>, <<c_name>>, <<>>, <<>>)

\* SELECT name FROM sqlite_master WHERE type='view' ORDER BY name
ViewsStatement == Statement("VIEWS", t_sqlite_master, <<>>, {}, <<>>, <<c_name>>, <<>>, <<>>)

PragmaStatement(t) == Statement("PRAGMA", t, <<>>, {}, <<>>, <<>>, <<>>, <<>>)

CountStatement(t) == Statement("COUNT", t, <<>>, {}, <<>>, <<>>, <<>>, <<>>)

\* SELECT * FROM t LIMIT 3
SampleStatement(t) == Statement("SELECT", t, <<>>, {}, <<>>, <<>>, <<>>, <<3>>)

\* repr(v) of a value of a row
PyRepr(c) == IF c.t = "text" THEN <<"'">> \o c.s \o <<"'">> ELSE PyStr(c)

\* str(dict(row)) of a row of SELECT *: the columns in catalog order
DictText(column_names, row) ==
    <<"{">>
    \o Join([k \in 1..Len(column_names) |->
                <<"'">> \o column_names[k] \o <<"'", ":", " ">>
                \o PyRepr(CellOf(row, column_names[k]))],
            <<",", " ">>)
    \o <<"}">>

\* the sample rows of a table as examine_database lists them (lines 375-381)
SampleLines(column_names, samples) ==
    IF samples = <<>> THEN <<>>
    ELSE <<Line("Sample rows:", <<>>)>>
         \o [k \in 1..Len(samples) |->
                Line("  Row {}: {}", <<IntText(k), DictText(column_names, samples[k])>>)]

\* the columns of a table as examine_database lists them (lines 357-364)
ColumnLines(cols) ==
    [k \in 1..Len(cols) |-> Line("  - {} ({})", <<cols[k][1], cols[k][2]>>)]

\* one turn of examine_database's loop over the tables (lines 353-383): its
\* lines and its statements
ExamineTable(db, t) ==
    [lines |->
        << Blank, Line("=== Table: {} ===", <<t>>), Line("Columns:", <<>>) >>
        \o ColumnLines(TableOf(t).cols)
        \o (IF ExecuteError(db, CountStatement(t)) = <<>>
            THEN <<Line("Row count: {}", <<IntText(Len(TableRows(db, t)))>>)>>
            ELSE <<Line("Row count: Unable to determine", <<>>)>>)
        \o (IF t \notin InterestingTables THEN <<>>
            ELSE IF ExecuteError(db, SampleStatement(t)) # <<>>
            THEN <<Line("Sample data error: {}", <<ExecuteError(db, SampleStatement(t))>>)>>
            ELSE SampleLines(ColumnNames(t), FetchAll(db, SampleStatement(t)))),
     log |-> <<PragmaStatement(t), CountStatement(t)>>
             \o (IF t \in InterestingTables THEN <<SampleStatement(t)>> ELSE <<>>)]

\* the views of the catalog, in name order
CatalogViews == <<>>

\* the views as examine_database lists them (lines 385-392)
ViewLines(views) ==
    IF views = <<>> THEN <<>>
    ELSE << Blank, Line("Found {} views:", <<IntText(Len(views))>>) >>
         \o [k \in 1..Len(views) |-> Line("  - {}", <<views[k]>>)]

\* examine_database once the tables are listed (lines 349-394)
ExamineReport(turns) ==
    Returned(<< Line("Examining envelope database at: {}", <<DbPathText>>), Blank,
                Line("Found {} tables:", <<IntText(Len(Catalog))>>) >>
             \o Concat([k \in 1..Len(turns) |-> turns[k].lines])
             \o ViewLines(CatalogViews),
             <<TablesStatement>> \o Concat([k \in 1..Len(turns) |-> turns[k].log])
             \o <<ViewsStatement>>,
             1, 1)

examine_database(db) ==
    IF ~db.exists THEN Returned(NotFoundLines, <<>>, 0, 0)
    ELSE IF ExecuteError(db, TablesStatement) # <<>>
    THEN Returned(<<Line("Database examination error: {}",
                         <<ExecuteError(db, TablesStatement)>>)>>,
                  <<TablesStatement>>, 1, 0)
    ELSE ExamineReport([k \in 1..Len(Catalog) |-> ExamineTable(db, Catalog[k].name)])

\* DateAtomsOf with the fallback always on date_received: the variant C8 is
\* tested against
DateAtomsOf_FallbackOnReceived(conn, date_filter, cols, tz, day) ==
    [k \in 1..Len(cols) |->
        IF ~IsNull(day)
        THEN Atom(IF k = 1 THEN conn ELSE "OR", "range", cols[k], 2,
                  << IntCell(LocalTimestamp(Val(day), tz)),
                     IntCell(LocalTimestamp(Val(day), tz) + SecondsPerDay) >>)
        ELSE Atom(IF k = 1 THEN conn ELSE "OR", "dtlike", c_date_received, 1,
                  <<TextCell(LikePattern(date_filter))>>)]

\* The date predicate once strptime has run (lines 450-461, 576-585, 688-697):
\* one atom per column of cols, the first joined by conn and the others by OR.
\* strptime succeeding gives the half-open range of the local day; strptime
\* raising is caught by the bare except and gives a LIKE on the rendered
\* timestamp.
DateAtomsOf(conn, date_filter, cols, tz, day) ==
    [k \in 1..Len(cols) |->
        IF ~IsNull(day)
        THEN Atom(IF k = 1 THEN conn ELSE "OR", "range", cols[k], 2,
                  << IntCell(LocalTimestamp(Val(day), tz)),
                     IntCell(LocalTimestamp(Val(day), tz) + SecondsPerDay) >>)
        ELSE Atom(IF k = 1 THEN conn ELSE "OR", "dtlike", cols[k], 1,
                  <<TextCell(LikePattern(date_filter))>>)]

\* the date predicate the three date-filtering tools build
DateAtoms(conn, date_filter, cols, tz) ==
    DateAtomsOf(conn, date_filter, cols, tz, Strptime(date_filter))

\* `if date_filter:` of an argument that is absent or a str
HasDateFilter(args) == ~IsNull(args.date_filter) /\ Val(args.date_filter) # <<>>

\* HasMarker with subject as the only marker: the variant C12 is tested
\* against
HasMarker_SubjectOnly(column_names) == InSeq(c_subject, column_names)

\* any(col in column_names for col in [markers]) (line 436)
HasMarker(column_names) ==
    \E k \in 1..Len(MarkerColumns) : InSeq(MarkerColumns[k], column_names)

\* [col for col in column_names if 'date' in col.lower()] (line 447)
DateColumns(column_names) ==
    SelectSeq(column_names, LAMBDA col : Contains(Lower(col), s_date))

\* DateWhere on the last date column: the variant C13 is tested against
DateWhere_LastDateColumn(args, date_columns, tz) ==
    IF HasDateFilter(args) /\ date_columns # <<>>
    THEN DateAtoms("", Val(args.date_filter), <<date_columns[Len(date_columns)]>>, tz)
    ELSE <<>>

\* where_clause and params of search_all_tables (lines 444-461): the first date
\* column only
DateWhere(args, date_columns, tz) ==
    IF HasDateFilter(args) /\ date_columns # <<>>
    THEN DateAtoms("", Val(args.date_filter), <<date_columns[1]>>, tz)
    ELSE <<>>

\* `'subject' in column_names and 'sender' in column_names` (line 464)
MessageShaped(column_names) ==
    InSeq(c_subject, column_names) /\ InSeq(c_sender, column_names)

\* the row query of a table that has subject and sender (lines 464-483)
MessageShapedStatement(t, column_names, where, limit) ==
    Statement("SELECT", t, <<>>,
              { <<t, c_ROWID>> }
              \cup { <<t, c>> : c \in { x \in {c_subject, c_sender, c_recipients,
                                               c_to_recipients} : InSeq(x, column_names) } }
              \cup (IF InSeq(c_date_received, column_names) THEN { <<t, c_date_received>> }
                    ELSE IF InSeq(c_date_sent, column_names) THEN { <<t, c_date_sent>> }
                    ELSE {})
              \cup { <<t, where[k].col>> : k \in 1..Len(where) },
              where, <<c_ROWID>>, <<limit>>, <<>>)

MessageShapedBlock(column_names, msg) ==
    << Line("  ID: {}", <<IntText(msg.rowid)>>),
       Line("  Subject: {}", <<OrPlaceholder(CellOf(msg, c_subject), NoSubjectText)>>),
       Line("  From: {}", <<OrPlaceholder(CellOf(msg, c_sender), UnknownText)>>) >>
    \o (IF InSeq(c_recipients, column_names)
        THEN <<Line("  To: {}", <<OrPlaceholder(CellOf(msg, c_recipients), UnknownText)>>)>>
        ELSE <<>>)
    \o (IF InSeq(c_date_received, column_names)
        THEN <<Line("  Date: {}", <<PyStr(SqlDatetime(CellOf(msg, c_date_received)))>>)>>
        ELSE IF InSeq(c_date_sent, column_names)
        THEN <<Line("  Date: {}", <<PyStr(SqlDatetime(CellOf(msg, c_date_sent)))>>)>>
        ELSE <<>>)
    \o <<Line("  ---", <<>>)>>

\* the statement search_all_tables runs on a table with a marker column
\* (lines 464-483, 505-506)
SearchTableStatement(tz, t, args, column_names) ==
    IF MessageShaped(column_names)
    THEN MessageShapedStatement(t, column_names,
                                DateWhere(args, DateColumns(column_names), tz),
                                GetLimit(args))
    ELSE SampleStatement(t)

\* what search_all_tables lists of the rows of a table (lines 485-511)
SearchTableLines(t, column_names, rows) ==
    IF MessageShaped(column_names)
    THEN (IF rows # <<>>
          THEN <<Line("Found {} messages:", <<IntText(Len(rows))>>)>>
               \o Concat([k \in 1..Len(rows) |-> MessageShapedBlock(column_names, rows[k])])
          ELSE <<Line("No matching messages found", <<>>)>>)
    ELSE (IF rows # <<>>
          THEN <<Line("Sample data (first 3 rows):", <<>>)>>
               \o [k \in 1..Len(rows) |-> Line("  {}", <<DictText(column_names, rows[k])>>)]
          ELSE <<>>)

\* the turn of search_all_tables' loop for a table with a marker column
\* (lines 437-517)
SearchMarked(db, t, column_names, st) ==
    [lines |->
        <<Line("=== Searching table: {} ===", <<t>>)>>
        \o (IF ExecuteError(db, st) # <<>>
            THEN <<Line("Error searching {}: {}", <<t, ExecuteError(db, st)>>), Blank>>
            ELSE SearchTableLines(t, column_names, FetchAll(db, st)) \o <<Blank>>),
     log |-> <<PragmaStatement(t), st>>]

\* one turn of search_all_tables' loop over the tables (lines 426-517): its
\* lines and its statements
SearchTable(db, tz, t, args) ==
    IF ~HasMarker(ColumnNames(t))
    THEN [lines |-> <<>>, log |-> <<PragmaStatement(t)>>]
    ELSE SearchMarked(db, t, ColumnNames(t),
                      SearchTableStatement(tz, t, args, ColumnNames(t)))

\* SearchAllReport without the try around a table's turn: the first table that
\* fails ends the call in the outer except clause.  The variant C18 is tested
\* against
SearchAllReport_StopsAtFirstError(args, turns) ==
    IF \E k \in 1..Len(turns) : \E i \in 1..Len(turns[k].lines) :
            turns[k].lines[i].label = "Error searching {}: {}"
    THEN Returned(<<Line("Database search error: {}", <<ErrDatatypeMismatch>>)>>,
                  <<TablesStatement>>, 1, 0)
    ELSE Returned(<< (IF HasDateFilter(args)
                      THEN Line("Searching all tables for emails on {}",
                                <<Val(args.date_filter)>>)
                      ELSE Line("Searching all tables for emails", <<>>)),
                     Blank >>
                  \o Concat([k \in 1..Len(turns) |-> turns[k].lines]),
                  <<TablesStatement>> \o Concat([k \in 1..Len(turns) |-> turns[k].log]),
                  1, 1)

\* search_all_tables once the tables are listed (lines 414-520)
SearchAllReport(args, turns) ==
    Returned(<< (IF HasDateFilter(args)
                 THEN Line("Searching all tables for emails on {}", <<Val(args.date_filter)>>)
                 ELSE Line("Searching all tables for emails", <<>>)),
                Blank >>
             \o Concat([k \in 1..Len(turns) |-> turns[k].lines]),
             <<TablesStatement>> \o Concat([k \in 1..Len(turns) |-> turns[k].log]),
             1, 1)

search_all_tables(db, tz, args) ==
    IF ~args.mapping THEN RaisedNoGet
    ELSE IF ~db.exists THEN Returned(NotFoundLines, <<>>, 0, 0)
    ELSE IF ExecuteError(db, TablesStatement) # <<>>
    THEN Returned(<<Line("Database search error: {}",
                         <<ExecuteError(db, TablesStatement)>>)>>,
                  <<TablesStatement>>, 1, 0)
    ELSE SearchAllReport(args,
            [k \in 1..Len(Catalog) |-> SearchTable(db, tz, Catalog[k].name, args)])

\* LEFT JOIN subjects s ON m.subject = s.ROWID: s.subject, NULL without a match
SubjectOf(db, c) ==
    IF c.t = "int" /\ c.i \in 1..Len(db.subjects) THEN TextCell(db.subjects[c.i]) ELSE NullCell

\* LEFT JOIN mailboxes mb ON m.mailbox = mb.ROWID: mb.url, NULL without a match
MailboxUrlOf(db, c) ==
    IF c.t = "int" /\ c.i \in 1..Len(db.mailboxes) THEN TextCell(db.mailboxes[c.i]) ELSE NullCell

\* addresses.address of a row id, NULL without a match
AddressOf(db, id) ==
    IF id \in 1..Len(db.addresses) THEN TextCell(db.addresses[id]) ELSE NullCell

\* the addresses of the sender_addresses rows a LEFT JOIN matched, one NULL
\* without a match
JoinedAddresses(db, hit) ==
    IF hit = <<>> THEN <<NullCell>>
    ELSE [k \in 1..Len(hit) |-> AddressOf(db, hit[k][2])]

\* LEFT JOIN sender_addresses sa ON m.sender = sa.sender LEFT JOIN addresses
\* sender_addr ON sa.address = sender_addr.ROWID: sender_addr.address of every
\* match
SenderAddressesOf(db, c) ==
    JoinedAddresses(db, SelectSeq(db.sender_addresses,
                                  LAMBDA sa : c.t = "int" /\ sa[1] = c.i))

\* a row of messages joined to its subject, its mailbox and one sender address
JoinedRow(db, m, sender_address) ==
    [ROWID          |-> m.rowid,
     message_id     |-> CellOf(m, c_message_id),
     subject        |-> SubjectOf(db, CellOf(m, c_subject)),
     sent_date      |-> SqlDatetime(CellOf(m, c_date_sent)),
     received_date  |-> SqlDatetime(CellOf(m, c_date_received)),
     mailbox_url    |-> MailboxUrlOf(db, CellOf(m, c_mailbox)),
     sender         |-> CellOf(m, c_sender),
     sender_address |-> sender_address]

\* the rows a row of messages gives the joined query of find_sent_emails
\* (lines 588-599) and, with the sender joins, of search_by_subject
\* (lines 700-715)
JoinMessage(db, m, senders) ==
    [k \in 1..Len(senders) |-> JoinedRow(db, m, senders[k])]

\* the joins applied to the rows of messages, in their order
JoinRows(db, rows, sender_join) ==
    Concat([k \in 1..Len(rows) |->
               JoinMessage(db, rows[k],
                           IF sender_join
                           THEN SenderAddressesOf(db, CellOf(rows[k], c_sender))
                           ELSE <<NullCell>>)])

\* the rows the joined messages query fetches: the WHERE and the ORDER BY read
\* columns of messages only, so the joins keep the order and add rows in place
FetchJoined(db, st, sender_join) ==
    LimitRows(JoinRows(db, OrderByDesc(SelectRows(TableRows(db, t_messages), st.where),
                                       st.order),
                       sender_join),
              st.limit[1].i)

\* the recipients query of both workflows (lines 620-626, 736-742)
RecipientsStatement(rowid) ==
    Statement("SELECT", t_recipients, <<t_addresses>>,
              { <<t_addresses, c_address>>, <<t_addresses, c_ROWID>>,
                <<t_recipients, c_address>>, <<t_recipients, c_message>>,
                <<t_recipients, c_type>> },
              << Atom("", "eq", c_message, 1, <<IntCell(rowid)>>),
                 Atom("AND", "eq1", c_type, 0, <<>>) >>,
              <<>>, <<>>, <<3>>)

\* the addresses of recipients rows, at most three
RecipientAddresses(db, hit) ==
    [k \in 1..Len(LimitRows(hit, 3)) |-> AddressOf(db, CellOf(hit[k], c_address).i).s]

\* [r[0] for r in recipients]: the addresses of the "To" recipients of a
\* message, the inner join dropping a recipient whose address row is missing
FetchRecipients(db, rowid) ==
    RecipientAddresses(db,
        SelectSeq(FetchAll(db, [RecipientsStatement(rowid) EXCEPT !.cap = <<>>]),
                  LAMBDA r : AddressOf(db, CellOf(r, c_address).i).t # "null"))

\* `if recipients:` and the To line (lines 628-631, 744-747)
ToLineOf(recipients) ==
    IF recipients = <<>> THEN <<>>
    ELSE <<Line("To: {}", <<Join(recipients, <<",", " ">>)>>)>>

ToLine(db, rowid) == ToLineOf(FetchRecipients(db, rowid))

\* the recipients statements of the messages listed, in order
RecipientsLog(messages) ==
    [k \in 1..Len(messages) |-> RecipientsStatement(messages[k].ROWID)]

\* SELECT ROWID FROM addresses WHERE address = ? (line 548)
AddressStatement(email_address) ==
    Statement("SELECT", t_addresses, <<>>,
              { <<t_addresses, c_ROWID>>, <<t_addresses, c_address>> },
              <<Atom("", "eq", c_address, 1, <<TextCell(email_address)>>)>>,
              <<>>, <<>>, <<>>)

\* SELECT sender FROM sender_addresses WHERE address = ? (line 558)
SenderStatement(address_id) ==
    Statement("SELECT", t_sender_addresses, <<>>,
              { <<t_sender_addresses, c_sender>>, <<t_sender_addresses, c_address>> },
              <<Atom("", "eq", c_address, 1, <<IntCell(address_id)>>)>>,
              <<>>, <<>>, <<>>)

\* the messages query of find_sent_emails (lines 567-600)
SentStatement(sender_ids, args, tz) ==
    Statement("SELECT", t_messages, <<t_subjects, t_mailboxes>>,
              { <<t_messages, c_ROWID>>, <<t_messages, c_message_id>>,
                <<t_subjects, c_subject>>, <<t_messages, c_date_sent>>,
                <<t_messages, c_date_received>>, <<t_mailboxes, c_url>>,
                <<t_messages, c_subject>>, <<t_subjects, c_ROWID>>,
                <<t_messages, c_mailbox>>, <<t_mailboxes, c_ROWID>>,
                <<t_messages, c_sender>> },
              <<Atom("", "in", c_sender, Len(sender_ids),
                     [k \in 1..Len(sender_ids) |-> IntCell(sender_ids[k])])>>
              \o (IF HasDateFilter(args)
                  THEN DateAtoms("AND", Val(args.date_filter), <<c_date_sent>>, tz)
                  ELSE <<>>),
              <<c_date_sent>>, <<GetLimit(args)>>, <<>>)

SentBlock(db, msg) ==
    << Line("Message ID: {}", <<IntText(msg.ROWID)>>),
       Line("Subject: {}", <<OrPlaceholder(msg.subject, NoSubjectText)>>),
       Line("Sent Date: {}", <<PyStr(msg.sent_date)>>),
       Line("Received Date: {}", <<PyStr(msg.received_date)>>),
       Line("Mailbox: {}", <<PyStr(msg.mailbox_url)>>) >>
    \o ToLine(db, msg.ROWID)
    \o <<Line("---", <<>>)>>

\* str(list) of a list of integers
ListText(ids) ==
    <<"[">> \o Join([k \in 1..Len(ids) |-> IntText(ids[k])], <<",", " ">>) \o <<"]">>

\* the except clause of find_sent_emails (lines 638-639): conn is not closed
SentFailed(log, err) ==
    Returned(<<Line("Error finding sent emails: {}", <<err>>)>>, log, 1, 0)

\* find_sent_emails from `sent_messages = cursor.fetchall()` on (lines 603-636).
\* The recipients statements read tables of the catalog, so they cannot raise
\* once the statements of log have run.
SentReport(db, args, email_address, address_id, sender_ids, log, sent_messages) ==
    Returned(
        << (IF HasDateFilter(args)
            THEN Line("Searching for emails sent by {} on {}",
                      <<email_address, Val(args.date_filter)>>)
            ELSE Line("Searching for emails sent by {}", <<email_address>>)),
           Blank,
           Line("Found address ID: {}", <<IntText(address_id)>>),
           Line("Found sender IDs: {}", <<ListText(sender_ids)>>) >>
        \o (IF sent_messages = <<>>
            THEN << Line("No sent messages found matching criteria", <<>>),
                    Line("Note: Check if {} is correct in configuration", <<email_address>>) >>
            ELSE << Blank,
                    Line("Found {} sent messages:", <<IntText(Len(sent_messages))>>),
                    Blank >>
                 \o Concat([k \in 1..Len(sent_messages) |-> SentBlock(db, sent_messages[k])])),
        log \o RecipientsLog(sent_messages), 1, 1)

\* Step 3 of find_sent_emails (lines 567-603)
SentMessages(db, args, email_address, address_id, sender_ids, log, st) ==
    IF ExecuteError(db, st) # <<>>
    THEN SentFailed(Append(log, st), ExecuteError(db, st))
    ELSE SentReport(db, args, email_address, address_id, sender_ids, Append(log, st),
                    FetchJoined(db, st, FALSE))

\* SentSenders without the early return of line 562: the variant C14 is
\* tested against
SentSenders_NoEarlyReturn(db, tz, args, email_address, address_id, log, sender_rows) ==
    SentMessages(db, args, email_address, address_id,
                 [k \in 1..Len(sender_rows) |-> CellOf(sender_rows[k], c_sender).i],
                 log,
                 SentStatement([k \in 1..Len(sender_rows) |->
                                   CellOf(sender_rows[k], c_sender).i],
                               args, tz))

\* find_sent_emails from `sender_rows = cursor.fetchall()` on (lines 559-565):
\* the early return leaves conn open
SentSenders(db, tz, args, email_address, address_id, log, sender_rows) ==
    IF sender_rows = <<>>
    THEN Returned(<<Line("No sender records found for address ID {}",
                         <<IntText(address_id)>>)>>,
                  log, 1, 0)
    ELSE SentMessages(db, args, email_address, address_id,
                      [k \in 1..Len(sender_rows) |-> CellOf(sender_rows[k], c_sender).i],
                      log,
                      SentStatement([k \in 1..Len(sender_rows) |->
                                        CellOf(sender_rows[k], c_sender).i],
                                    args, tz))

\* Step 2 of find_sent_emails (lines 554-559)
SentAddress(db, tz, args, email_address, address_id, log) ==
    IF ExecuteError(db, SenderStatement(address_id)) # <<>>
    THEN SentFailed(Append(log, SenderStatement(address_id)),
                    ExecuteError(db, SenderStatement(address_id)))
    ELSE SentSenders(db, tz, args, email_address, address_id,
                     Append(log, SenderStatement(address_id)),
                     FetchAll(db, SenderStatement(address_id)))

\* SentAddressRow without the early return of line 552: the variant C6 is
\* tested against
SentAddressRow_NoEarlyReturn(db, tz, args, email_address, log, address_rows) ==
    SentAddress(db, tz, args, email_address,
                IF address_rows = <<>> THEN 1 ELSE address_rows[1].rowid, log)

\* find_sent_emails from `address_row = cursor.fetchone()` on (lines 549-555):
\* the early return leaves conn open
SentAddressRow(db, tz, args, email_address, log, address_rows) ==
    IF address_rows = <<>>
    THEN Returned(<< Line("Email address {} not found in addresses table", <<email_address>>),
                     Line("Try updating PRIMARY_EMAIL_ADDRESS in configuration", <<>>) >>,
                  log, 1, 0)
    ELSE SentAddress(db, tz, args, email_address, address_rows[1].rowid, log)

\* Step 1 of find_sent_emails (lines 536-549)
SentLookup(db, tz, args, email_address) ==
    IF ExecuteError(db, AddressStatement(email_address)) # <<>>
    THEN SentFailed(<<AddressStatement(email_address)>>,
                    ExecuteError(db, AddressStatement(email_address)))
    ELSE SentAddressRow(db, tz, args, email_address, <<AddressStatement(email_address)>>,
                        FetchAll(db, AddressStatement(email_address)))

\* find_sent_emails without the db_path.exists() test of line 533: the
\* variant C10 is tested against
find_sent_emails_NoExistsTest(db, tz, args) ==
    IF ~args.mapping THEN RaisedNoGet
    ELSE SentLookup(db, tz, args, GetText(args.email_address, PRIMARY_EMAIL_ADDRESS))

find_sent_emails(db, tz, args) ==
    IF ~args.mapping THEN RaisedNoGet
    ELSE IF ~db.exists THEN Returned(NotFoundLines, <<>>, 0, 0)
    ELSE SentLookup(db, tz, args, GetText(args.email_address, PRIMARY_EMAIL_ADDRESS))

\* SELECT ROWID, subject FROM subjects WHERE subject LIKE ? (line 667)
SubjectsStatement(subject_text) ==
    Statement("SELECT", t_subjects, <<>>,
              { <<t_subjects, c_ROWID>>, <<t_subjects, c_subject>> },
              <<Atom("", "like", c_subject, 1, <<TextCell(LikePattern(subject_text))>>)>>,
              <<>>, <<>>, <<>>)

\* the messages query of search_by_subject (lines 678-716)
SubjectStatement(subject_ids, args, tz) ==
    Statement("SELECT", t_messages,
              <<t_subjects, t_mailboxes, t_sender_addresses, t_addresses>>,
              { <<t_messages, c_ROWID>>, <<t_messages, c_message_id>>,
                <<t_subjects, c_subject>>, <<t_messages, c_date_sent>>,
                <<t_messages, c_date_received>>, <<t_mailboxes, c_url>>,
                <<t_messages, c_sender>>, <<t_addresses, c_address>>,
                <<t_messages, c_subject>>, <<t_subjects, c_ROWID>>,
                <<t_messages, c_mailbox>>, <<t_mailboxes, c_ROWID>>,
                <<t_sender_addresses, c_sender>>, <<t_sender_addresses, c_address>>,
                <<t_addresses, c_ROWID>> },
              <<Atom("", "in", c_subject, Len(subject_ids),
                     [k \in 1..Len(subject_ids) |-> IntCell(subject_ids[k])])>>
              \o (IF HasDateFilter(args)
                  THEN DateAtoms("AND", Val(args.date_filter),
                                 <<c_date_sent, c_date_received>>, tz)
                  ELSE <<>>),
              <<c_date_sent, c_date_received>>, <<GetLimit(args)>>, <<>>)

SubjectBlock(db, msg) ==
    << Line("Message ID: {}", <<IntText(msg.ROWID)>>),
       Line("Subject: {}", <<OrPlaceholder(msg.subject, NoSubjectText)>>),
       Line("Sent Date: {}", <<PyStr(msg.sent_date)>>),
       Line("Received Date: {}", <<PyStr(msg.received_date)>>),
       Line("Sender Address: {}", <<OrPlaceholder(msg.sender_address, UnknownText)>>),
       Line("Mailbox: {}", <<PyStr(msg.mailbox_url)>>) >>
    \o ToLine(db, msg.ROWID)
    \o <<Line("---", <<>>)>>

\* the except clause of search_by_subject (lines 754-755): conn is not closed
SubjectFailed(log, err) ==
    Returned(<<Line("Error searching by subject: {}", <<err>>)>>, log, 1, 0)

\* search_by_subject from `messages = cursor.fetchall()` on (lines 719-752).
\* The recipients statements read tables of the catalog, so they cannot raise
\* once the statements of log have run.
SubjectReport(db, args, subject_rows, log, messages) ==
    Returned(
        << (IF HasDateFilter(args)
            THEN Line("Searching for emails with subject containing: '{}' on {}",
                      <<Val(args.subject_text), Val(args.date_filter)>>)
            ELSE Line("Searching for emails with subject containing: '{}'",
                      <<Val(args.subject_text)>>)),
           Blank,
           Line("Found {} matching subjects:", <<IntText(Len(subject_rows))>>) >>
        \o [k \in 1..Len(subject_rows) |->
               Line("  Subject ID {}: {}",
                    <<IntText(subject_rows[k].rowid),
                      PyStr(CellOf(subject_rows[k], c_subject))>>)]
        \o <<Blank>>
        \o (IF messages = <<>>
            THEN <<Line("No messages found matching criteria", <<>>)>>
            ELSE << Line("Found {} messages:", <<IntText(Len(messages))>>), Blank >>
                 \o Concat([k \in 1..Len(messages) |-> SubjectBlock(db, messages[k])])),
        log \o RecipientsLog(messages), 1, 1)

\* Step 2 of search_by_subject (lines 678-719)
SubjectMessages(db, args, subject_rows, log, st) ==
    IF ExecuteError(db, st) # <<>>
    THEN SubjectFailed(Append(log, st), ExecuteError(db, st))
    ELSE SubjectReport(db, args, subject_rows, Append(log, st), FetchJoined(db, st, TRUE))

\* SubjectRows without the early return of line 671: the variant C7 is tested
\* against
SubjectRows_NoEarlyReturn(db, tz, args, log, subject_rows) ==
    SubjectMessages(db, args, subject_rows, log,
                    SubjectStatement([k \in 1..Len(subject_rows) |-> subject_rows[k].rowid],
                                     args, tz))

\* search_by_subject from `subject_rows = cursor.fetchall()` on (lines 668-679):
\* the early return leaves conn open
SubjectRows(db, tz, args, log, subject_rows) ==
    IF subject_rows = <<>>
    THEN Returned(<<Line("No subjects found containing '{}'", <<Val(args.subject_text)>>)>>,
                  log, 1, 0)
    ELSE SubjectMessages(db, args, subject_rows, log,
                         SubjectStatement([k \in 1..Len(subject_rows) |-> subject_rows[k].rowid],
                                          args, tz))

\* Step 1 of search_by_subject (lines 655-668)
SubjectLookup(db, tz, args, st) ==
    IF ExecuteError(db, st) # <<>>
    THEN SubjectFailed(<<st>>, ExecuteError(db, st))
    ELSE SubjectRows(db, tz, args, <<st>>, FetchAll(db, st))

search_by_subject(db, tz, args) ==
    IF ~args.mapping THEN RaisedNoGet
    ELSE IF GetText(args.subject_text, <<>>) = <<>>
    THEN Returned(<<Line("Subject text is required", <<>>)>>, <<>>, 0, 0)
    ELSE IF ~db.exists THEN Returned(NotFoundLines, <<>>, 0, 0)
    ELSE SubjectLookup(db, tz, args, SubjectsStatement(Val(args.subject_text)))

(***************************************************************************)
(* Requests                                                                *)
(***************************************************************************)
MethodNotFoundCode == -32601

InternalErrorCode == -32603

NoArgs ==
    [mapping |-> TRUE, query |-> NULL, limit |-> NULL, date_filter |-> NULL,
     email_address |-> NULL, subject_text |-> NULL]

\* "limit": absent, negative, zero, two positive ones, and a value that is no
\* number
Limits ==
    { NULL, Some(IntCell(-1)), Some(IntCell(0)), Some(IntCell(1)), Some(IntCell(2)),
      Some(TextCell(<<"x">>)) }

\* "date_filter": absent, the day of DayStart, and a text strptime rejects
DateFilters ==
    { NULL, Some(<<"2", "0", "2", "4", "-", "0", "3", "-", "0", "1">>),
      Some(<<"2", "0", "2", "4", "-", "0", "3">>) }

Queries == { NULL, Some(<<"1">>) }

EmailAddresses == { NULL, Some(adr_a) }

SubjectTexts == { NULL, Some(<<"i", "n", "v">>), Some(<<"z", "z">>) }

\* the "arguments" the model sends to a tool: mappings of the tool's own
\* arguments, and one value that is no mapping
ArgumentsOf(tool) ==
    (IF tool = "mail_search"
     THEN { [NoArgs EXCEPT !.query = q, !.limit = l] : q \in Queries, l \in Limits }
     ELSE IF tool = "mail_search_all_tables"
     THEN { [NoArgs EXCEPT !.date_filter = d, !.limit = l] : d \in DateFilters, l \in Limits }
     ELSE IF tool = "mail_find_sent_emails"
     THEN { [NoArgs EXCEPT !.date_filter = d, !.email_address = e, !.limit = l] :
                d \in DateFilters, e \in EmailAddresses, l \in Limits }
     ELSE IF tool = "mail_search_by_subject"
     THEN { [NoArgs EXCEPT !.subject_text = t, !.date_filter = d, !.limit = l] :
                t \in SubjectTexts, d \in DateFilters, l \in Limits }
     ELSE { NoArgs })
    \cup { [NoArgs EXCEPT !.mapping = FALSE] }

KnownTools ==
    { "mail_search", "mail_list_accounts", "mail_examine_database",
      "mail_search_all_tables", "mail_find_sent_emails", "mail_search_by_subject" }

DatabaseTools == KnownTools \ { "mail_list_accounts" }

ToolNames == KnownTools \cup { "mail_delete" }

RequestIds == { NULL, Some(1) }

\* the JSON objects the model sends.  method and name are "" when the key is
\* absent; params_mapping is false when "params" is no mapping
Requests ==
    UNION { { [method |-> "tools/call", id |-> i, params_mapping |-> TRUE,
               name |-> n, arguments |-> a] : i \in RequestIds, a \in ArgumentsOf(n) } :
            n \in ToolNames }
    \cup
    { [method |-> m, id |-> i, params_mapping |-> pm, name |-> "", arguments |-> NoArgs] :
        m \in { "initialize", "tools/list", "tools/call", "resources/list", "" },
        i \in RequestIds, pm \in BOOLEAN }

\* the lines the model sends that are no request: an empty line, a line that is
\* no JSON, a JSON value that is no object, the notification
OtherLines == { "blank", "not json", "not an object", "notifications/initialized" }

(***************************************************************************)
(* handle_request (lines 67-253)                                           *)
(***************************************************************************)
\* the engine operation the dispatcher runs for a tool name, "" for none
OperationOf(tool_name) ==
    IF tool_name = "mail_search" THEN "search_emails"
    ELSE IF tool_name = "mail_list_accounts" THEN "list_accounts"
    ELSE IF tool_name = "mail_examine_database" THEN "examine_database"
    ELSE IF tool_name = "mail_search_all_tables" THEN "search_all_tables"
    ELSE IF tool_name = "mail_find_sent_emails" THEN "find_sent_emails"
    ELSE IF tool_name = "mail_search_by_subject" THEN "search_by_subject"
    ELSE ""

NoCall == [text |-> <<>>, raised |-> <<>>, log |-> <<>>, opened |-> 0, closed |-> 0]

\* the call of an engine operation
Run(operation, db, tz, args) ==
    IF operation = "search_emails" THEN search_emails(db, args)
    ELSE IF operation = "list_accounts" THEN list_accounts(db)
    ELSE IF operation = "examine_database" THEN examine_database(db)
    ELSE IF operation = "search_all_tables" THEN search_all_tables(db, tz, args)
    ELSE IF operation = "find_sent_emails" THEN find_sent_emails(db, tz, args)
    ELSE IF operation = "search_by_subject" THEN search_by_subject(db, tz, args)
    ELSE NoCall

\* A response object.  has is the key it carries beside jsonrpc and id
\* ("result" or "error"); an error has code, message (its fixed part), name (the
\* tool or method named in it) and detail (str(e)); a result has shape
\* ("initialize", "tools" or "content") and, for content, the text.
ErrorResponse(id, code, message, name, detail) ==
    [id |-> id, has |-> "error", code |-> code, message |-> message, name |-> name,
     detail |-> detail, shape |-> "", text |-> <<>>]

ResultResponse(id, shape, text) ==
    [id |-> id, has |-> "result", code |-> 0, message |-> "", name |-> "",
     detail |-> <<>>, shape |-> shape, text |-> text]

\* handle_request with the unknown tool reported from the except clause: the
\* variant C9 is tested against
handle_request_UnknownAsInternal(req, call) ==
    IF req.method = "initialize" THEN ResultResponse(req.id, "initialize", <<>>)
    ELSE IF req.method = "tools/list" THEN ResultResponse(req.id, "tools", <<>>)
    ELSE IF req.method = "tools/call" THEN
        IF OperationOf(req.name) = "" \/ call.raised # <<>>
        THEN ErrorResponse(req.id, InternalErrorCode, "{}", "",
                           IF call.raised # <<>> THEN call.raised[1] ELSE <<>>)
        ELSE ResultResponse(req.id, "content", call.text)
    ELSE ErrorResponse(req.id, MethodNotFoundCode, "Method not found: {}", req.method, <<>>)

\* the response handle_request returns, given what the tool it ran yielded
handle_request(req, call) ==
    IF req.method = "initialize" THEN ResultResponse(req.id, "initialize", <<>>)
    ELSE IF req.method = "tools/list" THEN ResultResponse(req.id, "tools", <<>>)
    ELSE IF req.method = "tools/call" THEN
        IF OperationOf(req.name) = ""
        THEN ErrorResponse(req.id, MethodNotFoundCode, "Unknown tool: {}", req.name, <<>>)
        ELSE IF call.raised # <<>>
        THEN ErrorResponse(req.id, InternalErrorCode, "{}", "", call.raised[1])
        ELSE ResultResponse(req.id, "content", call.text)
    ELSE ErrorResponse(req.id, MethodNotFoundCode, "Method not found: {}", req.method, <<>>)

\* params.get on "params" that is no mapping raises outside handle_request's
\* try: the exception reaches main
Escapes(req) == req.method = "tools/call" /\ ~req.params_mapping

(***************************************************************************)
(* The server: main's loop (lines 757-791)                                 *)
(***************************************************************************)
VARIABLES db, tz, pc, request, response, log, ran, opened, closed, openConns

vars == <<db, tz, pc, request, response, log, ran, opened, closed, openConns>>

\* the local zone's offset east of UTC, in seconds
UTCOffsets == { 0, 3600 }

\* the connections that may stay open at once before the model stops reading:
\* with two, a request is also handled while an earlier call's connection is
\* still open
MaxOpenConns == 2

\* request, response: the line being handled and its response; ran, log,
\* opened, closed: the engine operation that handling ran, the statements it
\* executed and the connections it opened and closed; openConns: the
\* connections of the process that are open
Init ==
    /\ db \in Databases
    /\ tz \in UTCOffsets
    /\ pc = "read"
    /\ request = NULL
    /\ response = NULL
    /\ log = <<>>
    /\ ran = ""
    /\ opened = 0
    /\ closed = 0
    /\ openConns = 0

\* readline, strip, json.loads of a line that holds a request object
ReadRequest ==
    /\ pc = "read"
    /\ openConns < MaxOpenConns
    /\ \E req \in Requests : request' = Some(req)
    /\ pc' = "handle"
    /\ UNCHANGED <<db, tz, response, log, ran, opened, closed, openConns>>

\* a line that gets no response: blank, not JSON (JSONDecodeError is logged),
\* or the notification; a JSON value that is no object makes request.get raise,
\* which main logs as fatal before sys.exit(1)
ReadOther ==
    /\ pc = "read"
    /\ \E line \in OtherLines :
          pc' = IF line = "not an object" THEN "exited" ELSE "read"
    /\ UNCHANGED <<db, tz, request, response, log, ran, opened, closed, openConns>>

\* readline returns "": the loop breaks
EndOfInput ==
    /\ pc = "read"
    /\ pc' = "stopped"
    /\ UNCHANGED <<db, tz, request, response, log, ran, opened, closed, openConns>>

\* the engine operation a request reaches, "" when it reaches none
OperationFor(req) ==
    IF req.method = "tools/call" /\ req.params_mapping THEN OperationOf(req.name) ELSE ""

\* Handled with a response that depends on what earlier calls left behind: a
\* database tool called while an earlier call's connection is still open fails
\* as if the file were locked.  The variant C16 is tested against
Handled_LockedByEarlierCall(req, call) ==
    /\ ran' = OperationFor(req)
    /\ log' = call.log
    /\ opened' = call.opened
    /\ closed' = call.closed
    /\ openConns' = openConns + call.opened - call.closed
    /\ IF Escapes(req)
       THEN pc' = "exited" /\ response' = NULL
       ELSE /\ pc' = "respond"
            /\ response' = Some(IF openConns > 0 /\ OperationFor(req) # ""
                                THEN ErrorResponse(req.id, InternalErrorCode, "{}", "", <<>>)
                                ELSE handle_request(req, call))

\* what handling a request leaves behind, given what the tool it ran yielded
Handled(req, call) ==
    /\ ran' = OperationFor(req)
    /\ log' = call.log
    /\ opened' = call.opened
    /\ closed' = call.closed
    /\ openConns' = openConns + call.opened - call.closed
    /\ IF Escapes(req)
       THEN pc' = "exited" /\ response' = NULL
       ELSE pc' = "respond" /\ response' = Some(handle_request(req, call))

\* server.handle_request(request): the whole call, the tool it runs included
HandleRequest ==
    /\ pc = "handle"
    /\ Handled(Val(request), Run(OperationFor(Val(request)), db, tz, Val(request).arguments))
    /\ UNCHANGED <<db, tz, request>>

\* print(json.dumps(response)), flush, and back to readline
WriteResponse ==
    /\ pc = "respond"
    /\ pc' = "read"
    /\ request' = NULL
    /\ response' = NULL
    /\ log' = <<>>
    /\ ran' = ""
    /\ opened' = 0
    /\ closed' = 0
    /\ UNCHANGED <<db, tz, openConns>>

\* a connection the program left open is closed when the interpreter
\* finalizes the unreachable Connection object, at a time of its choosing
Finalize ==
    /\ pc \in {"read", "respond"}
    /\ openConns > 0
    /\ openConns' = openConns - 1
    /\ UNCHANGED <<db, tz, pc, request, response, log, ran, opened, closed>>

Next ==
    \/ ReadRequest
    \/ ReadOther
    \/ EndOfInput
    \/ HandleRequest
    \/ WriteResponse
    \/ Finalize

Spec == Init /\ [][Next]_vars

(***************************************************************************)
(* Properties.  A state with pc = "respond" holds a request, the response  *)
(* handle_request returned for it, and what the tool it ran did.           *)
(***************************************************************************)
Req == Val(request)

Rsp == Val(response)

Args == Req.arguments

\* handle_request has returned the response to a tools/call of this tool
CalledTool(name) ==
    pc = "respond" /\ Req.method = "tools/call" /\ Req.name = name

DatabaseOperations ==
    { "search_emails", "examine_database", "search_all_tables", "find_sent_emails",
      "search_by_subject" }

LimitOperations ==
    { "search_emails", "search_all_tables", "find_sent_emails", "search_by_subject" }

DateFilterOperations == { "search_all_tables", "find_sent_emails", "search_by_subject" }

\* the labels of the lines by which a tool reports an exception
ErrorLabels ==
    { "Database error: {}", "Database examination error: {}", "Database search error: {}",
      "Error searching {}: {}", "Error finding sent emails: {}",
      "Error searching by subject: {}", "Sample data error: {}" }

\* the file is there and is a database
Readable == db.exists /\ ~db.corrupt

\* the limit argument is absent or an integer
IntegerLimit == IsNull(Args.limit) \/ Val(Args.limit).t = "int"

\* the response lists the message of this row id
Listed(rowid) ==
    \E k \in 1..Len(Rsp.text) :
        Rsp.text[k].label = "Message ID: {}" /\ Rsp.text[k].parts = <<IntText(rowid)>>

\* the date predicates of a statement, in order
DatePredicates(st) == SelectSeq(st.where, LAMBDA a : a.kind \in {"range", "dtlike"})

\* C1 (as claimed): when a database-backed tool has returned, it has closed
\* every connection it opened, on every exit path.
C1_EveryConnectionClosed ==
    (pc = "respond" /\ ran \in DatabaseOperations) => closed = opened

\* C2 (as claimed): when the limit argument is absent, zero or negative, the
\* value bound to LIMIT ? in every statement of the call is the default 10.
C2_NonPositiveLimitBindsDefault ==
    (/\ pc = "respond"
     /\ ran \in LimitOperations
     /\ Args.mapping
     /\ (IsNull(Args.limit) \/ (Val(Args.limit).t = "int" /\ Val(Args.limit).i <= 0)))
    => \A k \in 1..Len(log) :
          log[k].limit # <<>> => log[k].limit[1] = IntCell(DefaultLimit)

\* C3 (as claimed): every message mail_search_by_subject lists under a date
\* filter that parses has its subject among the matched subjects and has
\* date_sent or date_received inside the filtered day.
C3_ListedMatchSubjectAndDay ==
    (/\ CalledTool("mail_search_by_subject")
     /\ Args.mapping
     /\ Rsp.has = "result"
     /\ HasDateFilter(Args)
     /\ ~IsNull(Strptime(Val(Args.date_filter))))
    => LET start == LocalTimestamp(Val(Strptime(Val(Args.date_filter))), tz)
           InDay(o) == ~IsNull(o) /\ start <= Val(o) /\ Val(o) < start + SecondsPerDay
           Matched(o) == /\ ~IsNull(o)
                         /\ Val(o) \in 1..Len(db.subjects)
                         /\ Contains(Lower(db.subjects[Val(o)]),
                                     Lower(Val(Args.subject_text)))
       IN  \A k \in 1..Len(db.messages) :
              Listed(k) => /\ Matched(db.messages[k].subject)
                           /\ (InDay(db.messages[k].date_sent)
                               \/ InDay(db.messages[k].date_received))

\* C4 (as claimed): in mail_find_sent_emails and mail_search_by_subject no
\* subject, sender or mailbox line of a listed message carries the rendering
\* of a null value; a null or dangling reference gives a placeholder.
C4_NullFieldsGetPlaceholder ==
    (pc = "respond" /\ ran \in {"find_sent_emails", "search_by_subject"}
     /\ Rsp.has = "result")
    => \A k \in 1..Len(Rsp.text) :
          Rsp.text[k].label \in {"Subject: {}", "Sender Address: {}", "Mailbox: {}"}
          => Rsp.text[k].parts # <<NoneText>>

\* C5 (as claimed): before a call issues a SELECT against a table it has
\* retrieved the live column list of that table (PRAGMA table_info).
C5_ColumnsReadBeforeSelect ==
    pc = "respond"
    => \A k \in 1..Len(log) :
          log[k].verb = "SELECT"
          => \E j \in 1..(k - 1) : log[j].verb = "PRAGMA" /\ log[j].table = log[k].table

\* C6: mail_find_sent_emails with an address that no row of addresses holds
\* returns the fixed "not found in addresses table" message, and the address
\* lookup is the only statement the call executes.
C6_AddressMissStopsQueries ==
    (/\ CalledTool("mail_find_sent_emails")
     /\ Args.mapping
     /\ Readable
     /\ ~InSeq(GetText(Args.email_address, PRIMARY_EMAIL_ADDRESS), db.addresses))
    => /\ Rsp.has = "result"
       /\ Rsp.text =
            << Line("Email address {} not found in addresses table",
                    <<GetText(Args.email_address, PRIMARY_EMAIL_ADDRESS)>>),
               Line("Try updating PRIMARY_EMAIL_ADDRESS in configuration", <<>>) >>
       /\ Len(log) = 1
       /\ log[1].table = t_addresses

\* C6 witness: the call named an address the addresses table lacks, and the
\* table is not empty
C6_Witness ==
    /\ CalledTool("mail_find_sent_emails")
    /\ Readable
    /\ Args.email_address = Some(adr_a)
    /\ db.addresses = <<adr_t>>
    /\ Len(log) = 1

\* C7: mail_search_by_subject with a non-empty subject_text that no row of
\* subjects contains returns exactly "No subjects found containing '<text>'"
\* and executes the subjects lookup only: no messages and no recipients query.
C7_SubjectMissStopsQueries ==
    (/\ CalledTool("mail_search_by_subject")
     /\ Args.mapping
     /\ Readable
     /\ GetText(Args.subject_text, <<>>) # <<>>
     /\ \A i \in 1..Len(db.subjects) :
           ~Contains(Lower(db.subjects[i]), Lower(Val(Args.subject_text))))
    => /\ Rsp.has = "result"
       /\ Rsp.text = <<Line("No subjects found containing '{}'", <<Val(Args.subject_text)>>)>>
       /\ \A k \in 1..Len(log) : log[k].table \notin {t_messages, t_recipients}
       /\ Len(log) = 1
       /\ log[1].table = t_subjects

\* C7 witness: the call named a text no subject contains, on a database that
\* has subjects and messages
C7_Witness ==
    /\ CalledTool("mail_search_by_subject")
    /\ Readable
    /\ Args.subject_text = Some(<<"z", "z">>)
    /\ db.subjects # <<>>
    /\ db.messages # <<>>
    /\ Rsp.has = "result"

\* C8: with a date_filter that strptime rejects (and a limit that SQLite
\* accepts, on a readable database), mail_search_all_tables,
\* mail_find_sent_emails and mail_search_by_subject return a result without
\* an error line, and every date predicate of their messages query is a LIKE
\* on the rendered timestamp, with '%filter%' bound to its one placeholder,
\* on the columns the range predicate is put on.
C8_UnparsedDateFallsBackToLike ==
    (/\ pc = "respond"
     /\ ran \in DateFilterOperations
     /\ Args.mapping
     /\ Readable
     /\ IntegerLimit
     /\ HasDateFilter(Args)
     /\ IsNull(Strptime(Val(Args.date_filter))))
    => /\ Rsp.has = "result"
       /\ \A k \in 1..Len(Rsp.text) : Rsp.text[k].label \notin ErrorLabels
       /\ \A k \in 1..Len(log) :
             (log[k].verb = "SELECT" /\ log[k].table = t_messages)
             => LET d == DatePredicates(log[k])
                IN  /\ [j \in 1..Len(d) |-> d[j].col]
                         = IF ran = "search_by_subject"
                           THEN <<c_date_sent, c_date_received>>
                           ELSE <<c_date_sent>>
                    /\ \A j \in 1..Len(d) :
                          /\ d[j].kind = "dtlike"
                          /\ d[j].marks = 1
                          /\ d[j].args = <<TextCell(<<"%">> \o Val(Args.date_filter)
                                                   \o <<"%">>)>>

\* C8 witness: mail_search_by_subject ran its messages query with a filter
\* that is no date, and the substring match let a message through
C8_Witness ==
    /\ CalledTool("mail_search_by_subject")
    /\ Args.mapping
    /\ Readable
    /\ HasDateFilter(Args)
    /\ IsNull(Strptime(Val(Args.date_filter)))
    /\ \E k \in 1..Len(log) :
          log[k].table = t_messages /\ Len(DatePredicates(log[k])) = 2
    /\ \E k \in 1..Len(db.messages) : Listed(k)

\* C9: a tools/call that names none of the six tools gets an error object
\* with code -32601 and the request's id, no result; no engine operation
\* runs, no statement is executed and no connection is opened.
C9_UnknownToolIsStructuredError ==
    (pc = "respond" /\ Req.method = "tools/call" /\ Req.name \notin KnownTools)
    => /\ Rsp.has = "error"
       /\ Rsp.code = MethodNotFoundCode
       /\ Rsp.message = "Unknown tool: {}"
       /\ Rsp.name = Req.name
       /\ Rsp.id = Req.id
       /\ Rsp.shape = ""
       /\ Rsp.text = <<>>
       /\ ran = ""
       /\ log = <<>>
       /\ opened = 0

\* C9 witness: the response to a tools/call of "mail_delete" that carries an id
C9_Witness ==
    /\ CalledTool("mail_delete")
    /\ Req.id = Some(1)
    /\ Rsp.has = "error"

\* C10 (as claimed): with the database file missing, every call of a
\* database-backed tool, whatever the arguments in its mapping, returns the
\* string that names the expected path and the configuration to fix, and
\* opens no connection.
C10_MissingDatabaseAnyArguments ==
    (/\ pc = "respond"
     /\ Req.method = "tools/call"
     /\ Req.name \in DatabaseTools
     /\ ~db.exists
     /\ Args.mapping)
    => /\ Rsp.has = "result"
       /\ Rsp.text = NotFoundLines
       /\ opened = 0

\* C10 (amended): with the database file missing, a call of a database-backed
\* tool, whatever the arguments in its mapping, returns the string that names
\* the expected path and the configuration to fix, executes nothing and opens
\* no connection -- except mail_search_by_subject without a non-empty
\* subject_text, which answers "Subject text is required" before it looks
\* for the file.
C10_MissingDatabaseReported ==
    (/\ pc = "respond"
     /\ Req.method = "tools/call"
     /\ Req.name \in DatabaseTools
     /\ ~db.exists
     /\ Args.mapping
     /\ ~(Req.name = "mail_search_by_subject" /\ GetText(Args.subject_text, <<>>) = <<>>))
    => /\ Rsp.has = "result"
       /\ Rsp.text = NotFoundLines
       /\ Rsp.text[1].parts = <<DbPathText>>
       /\ log = <<>>
       /\ opened = 0

\* C10 witness: mail_search_by_subject with a subject_text, the file missing
C10_Witness ==
    /\ CalledTool("mail_search_by_subject")
    /\ ~db.exists
    /\ Args.mapping
    /\ Args.subject_text = Some(<<"i", "n", "v">>)
    /\ Rsp.has = "result"

\* the number of lines of the response that carry this label
LinesLabelled(label) ==
    Cardinality({ k \in 1..Len(Rsp.text) : Rsp.text[k].label = label })

\* C11 (as claimed): every record block of mail_find_sent_emails and
\* mail_search_by_subject carries every field label; a message without "To"
\* recipients still gets its To line, with a placeholder, so there are as many
\* To lines as records and all blocks have the same number of lines.
C11_EveryBlockHasEveryField ==
    (pc = "respond" /\ ran \in {"find_sent_emails", "search_by_subject"}
     /\ Rsp.has = "result")
    => LinesLabelled("To: {}") = LinesLabelled("Message ID: {}")

\* the response has a "=== Searching table: <t> ===" line
SearchedBlock(t) ==
    \E k \in 1..Len(Rsp.text) :
        Rsp.text[k].label = "=== Searching table: {} ===" /\ Rsp.text[k].parts = <<t>>

\* a line of the response names the table
Mentions(t) ==
    \E k \in 1..Len(Rsp.text) :
        Rsp.text[k].parts # <<>> /\ Rsp.text[k].parts[1] = t

\* the call executed a statement that reads rows of the table
RowQueryOn(t) ==
    \E k \in 1..Len(log) : log[k].verb \in {"SELECT", "COUNT"} /\ log[k].table = t

\* C12: in mail_search_all_tables on a readable database, a table of the
\* catalog gets a "=== Searching table: <name> ===" block and a row query if
\* and only if its column list holds one of subject, sender, date_received,
\* date_sent, message_id; for any other table no row query is issued and no
\* line names it.
C12_MarkedTablesAreSearched ==
    (pc = "respond" /\ ran = "search_all_tables" /\ Args.mapping /\ Readable)
    => /\ Rsp.has = "result"
       /\ \A i \in 1..Len(Catalog) :
             LET t == Catalog[i].name
                 marked == \E j \in 1..Len(Catalog[i].cols) :
                              Catalog[i].cols[j][1] \in
                                  {c_subject, c_sender, c_date_received, c_date_sent,
                                   c_message_id}
             IN  /\ SearchedBlock(t) <=> marked
                 /\ RowQueryOn(t) <=> marked
                 /\ ~marked => ~Mentions(t)

\* C12 witness: a search that has a block for sender_addresses, whose only
\* marker is sender, and none for recipients, which has no marker
C12_Witness ==
    /\ pc = "respond"
    /\ ran = "search_all_tables"
    /\ Readable
    /\ Rsp.has = "result"
    /\ db.messages # <<>>
    /\ SearchedBlock(t_sender_addresses)
    /\ ~SearchedBlock(t_recipients)

\* the columns of a table of the catalog whose lower-cased name contains
\* "date", in catalog order
DateNamed(t) ==
    SelectSeq(ColumnNames(t), LAMBDA c : Contains(Lower(c), <<"d", "a", "t", "e">>))

InPredicates(st) == SelectSeq(st.where, LAMBDA a : a.kind = "in")

\* the sender ids the store gives the address of a mail_find_sent_emails call:
\* the sender of every sender_addresses row of the first addresses row that
\* holds the address, in row order
ResolvedSenderIds ==
    LET email == GetText(Args.email_address, PRIMARY_EMAIL_ADDRESS)
        id    == CHOOSE i \in 1..Len(db.addresses) :
                    /\ db.addresses[i] = email
                    /\ \A j \in 1..(i - 1) : db.addresses[j] # email
        rows  == SelectSeq(db.sender_addresses, LAMBDA sa : sa[2] = id)
    IN  [k \in 1..Len(rows) |-> rows[k][1]]

\* the subject ids the store gives the text of a mail_search_by_subject call:
\* the row ids of the subjects that contain it, letters folded, in row order
ResolvedSubjectIds ==
    SelectSeq([i \in 1..Len(db.subjects) |-> i],
              LAMBDA i : Contains(Lower(db.subjects[i]), Lower(Val(Args.subject_text))))

\* C14: in mail_find_sent_emails and mail_search_by_subject on a readable
\* database, the IN predicate of the messages query has as many placeholders
\* as the resolved id list has identifiers and binds them in list order; when
\* the list is empty the call returns its empty-result message and executes no
\* messages query.
C14_InListMatchesResolvedIds ==
    (/\ pc = "respond"
     /\ ran \in {"find_sent_emails", "search_by_subject"}
     /\ Args.mapping
     /\ Readable
     /\ (ran = "find_sent_emails"
         => InSeq(GetText(Args.email_address, PRIMARY_EMAIL_ADDRESS), db.addresses))
     /\ (ran = "search_by_subject" => GetText(Args.subject_text, <<>>) # <<>>))
    => LET ids == IF ran = "find_sent_emails" THEN ResolvedSenderIds
                  ELSE ResolvedSubjectIds
       IN  /\ \A k \in 1..Len(log) :
                 log[k].table = t_messages
                 => /\ Len(InPredicates(log[k])) = 1
                    /\ InPredicates(log[k])[1].marks = Len(ids)
                    /\ InPredicates(log[k])[1].args = [j \in 1..Len(ids) |-> IntCell(ids[j])]
                    /\ InPredicates(log[k])[1].col
                         = IF ran = "find_sent_emails" THEN c_sender ELSE c_subject
           /\ ids # <<>> => \E k \in 1..Len(log) : log[k].table = t_messages
           /\ ids = <<>>
              => /\ \A k \in 1..Len(log) : log[k].table # t_messages
                 /\ Rsp.has = "result"
                 /\ Len(Rsp.text) = 1
                 /\ Rsp.text[1].label
                      = IF ran = "find_sent_emails"
                        THEN "No sender records found for address ID {}"
                        ELSE "No subjects found containing '{}'"

\* C14 witness: a mail_find_sent_emails call whose address resolves to two
\* sender ids, bound to two placeholders
C14_Witness ==
    /\ pc = "respond"
    /\ ran = "find_sent_emails"
    /\ Args.mapping
    /\ Readable
    /\ Args.email_address = Some(adr_a)
    /\ \E k \in 1..Len(log) :
          /\ log[k].table = t_messages
          /\ InPredicates(log[k])[1].marks = 2
          /\ InPredicates(log[k])[1].args = <<IntCell(7), IntCell(8)>>

\* the row ids the response lists, in the order of its "Message ID" lines
ListedIds ==
    LET ls == SelectSeq(Rsp.text, LAMBDA l : l.label = "Message ID: {}")
    IN  [k \in 1..Len(ls) |->
            CHOOSE r \in 1..Len(db.messages) : IntText(r) = ls[k].parts[1]]

\* the rows of messages mail_find_sent_emails is to list for its address and
\* its day: sender among the resolved sender ids, date_sent in the half-open
\* local day
SentOnDay ==
    LET start == LocalTimestamp(Val(Strptime(Val(Args.date_filter))), tz)
    IN  { r \in 1..Len(db.messages) :
            /\ ~IsNull(db.messages[r].sender)
            /\ \E j \in 1..Len(ResolvedSenderIds) :
                  ResolvedSenderIds[j] = Val(db.messages[r].sender)
            /\ ~IsNull(db.messages[r].date_sent)
            /\ start <= Val(db.messages[r].date_sent)
            /\ Val(db.messages[r].date_sent) < start + SecondsPerDay }

\* the call C15 is about: an address with sender ids, a date that parses, a
\* positive limit, a readable database
SentOnDayCall ==
    /\ pc = "respond"
    /\ ran = "find_sent_emails"
    /\ Args.mapping
    /\ Readable
    /\ InSeq(GetText(Args.email_address, PRIMARY_EMAIL_ADDRESS), db.addresses)
    /\ ResolvedSenderIds # <<>>
    /\ HasDateFilter(Args)
    /\ ~IsNull(Strptime(Val(Args.date_filter)))
    /\ ~IsNull(Args.limit)
    /\ Val(Args.limit).t = "int"
    /\ Val(Args.limit).i > 0

\* C15: such a call lists only messages whose sender is in the sender-id set
\* and whose date_sent is in [start of the local day, start + 1 day), each
\* once, by date_sent descending, as many as there are up to limit, and a
\* message it leaves out for the limit is no later than those it lists.
C15_SentOnDayListedInOrder ==
    SentOnDayCall
    => /\ Rsp.has = "result"
       /\ \A k \in 1..Len(ListedIds) : ListedIds[k] \in SentOnDay
       /\ \A j, k \in 1..Len(ListedIds) : j # k => ListedIds[j] # ListedIds[k]
       /\ Len(ListedIds) = IF Cardinality(SentOnDay) < Val(Args.limit).i
                           THEN Cardinality(SentOnDay) ELSE Val(Args.limit).i
       /\ \A k \in 1..(Len(ListedIds) - 1) :
             Val(db.messages[ListedIds[k]].date_sent)
                 >= Val(db.messages[ListedIds[k + 1]].date_sent)
       /\ \A r \in SentOnDay :
             (\A k \in 1..Len(ListedIds) : ListedIds[k] # r)
             => \A k \in 1..Len(ListedIds) :
                   Val(db.messages[r].date_sent)
                       <= Val(db.messages[ListedIds[k]].date_sent)

\* C15 witness: the store holds a message sent at the first second of the
\* day and, after it in the table, a later one of the same day, both by the
\* address; the call lists the later one first
C15_Witness ==
    /\ SentOnDayCall
    /\ Len(ListedIds) = 2
    /\ Val(db.messages[ListedIds[1]].date_sent) > Val(db.messages[ListedIds[2]].date_sent)
    /\ ListedIds[1] > ListedIds[2]
    /\ Val(db.messages[ListedIds[2]].date_sent)
         = LocalTimestamp(Val(Strptime(Val(Args.date_filter))), tz)

\* an earlier call of this process ended in an exception and left its
\* connection open: the only trace of a handled request that the process keeps
EarlierCallLeftOpen == openConns - (opened - closed) > 0

C17_EveryJsonLineAnswered ==
    [][ /\ pc = "handle" => (pc' = "respond" /\ response' # NULL)
        /\ pc = "respond" => (pc' = "read" \/ (pc' = "respond" /\ response' = response))
        /\ pc = "read" => (pc' \in {"read", "handle", "stopped"} /\ response' = NULL)
      ]_vars

\* the place of a table in the catalog, which is the order of the tables query
CatalogIndex(t) == CHOOSE i \in 1..Len(Catalog) : Catalog[i].name = t

\* the table of this place has one of the five marker columns
MarkedAt(i) ==
    \E j \in 1..Len(Catalog[i].cols) :
        Catalog[i].cols[j][1] \in {c_subject, c_sender, c_date_received, c_date_sent,
                                   c_message_id}

\* the statements of the call that read rows and raised
FailedRowQueries ==
    { k \in 1..Len(log) : log[k].verb = "SELECT" /\ ExecuteError(db, log[k]) # <<>> }

\* line i of the response reports the failure of statement k inline
ReportsInline(i, k) ==
    Rsp.text[i] = Line("Error searching {}: {}", <<log[k].table, ExecuteError(db, log[k])>>)

\* C18: in mail_search_all_tables on a readable database, a row query that
\* raises is reported by an "Error searching <table>: <error>" line; every
\* marked table after it in the catalog still gets its header, below that line,
\* and its row query; and the call returns the report with the connection
\* closed, not "Database search error".
C18_TableFailureReportedInline ==
    (pc = "respond" /\ ran = "search_all_tables" /\ Args.mapping /\ Readable)
    => /\ Rsp.has = "result"
       /\ LinesLabelled("Database search error: {}") = 0
       /\ closed = opened
       /\ \A k \in FailedRowQueries :
             \E i \in 1..Len(Rsp.text) :
                /\ ReportsInline(i, k)
                /\ \A j \in (CatalogIndex(log[k].table) + 1)..Len(Catalog) :
                      MarkedAt(j)
                      => /\ RowQueryOn(Catalog[j].name)
                         /\ \E h \in (i + 1)..Len(Rsp.text) :
                               /\ Rsp.text[h].label = "=== Searching table: {} ==="
                               /\ Rsp.text[h].parts = <<Catalog[j].name>>

\* C18 witness: the limit is no integer, so the messages query raises; the
\* report has the error line for messages and, after it, the blocks of
\* sender_addresses and subjects with their sample rows
C18_Witness ==
    /\ pc = "respond"
    /\ ran = "search_all_tables"
    /\ Readable
    /\ FailedRowQueries # {}
    /\ \E i \in 1..Len(Rsp.text) :
          /\ Rsp.text[i].label = "Error searching {}: {}"
          /\ Rsp.text[i].parts[1] = t_messages
          /\ \E h \in (i + 1)..Len(Rsp.text) :
                Rsp.text[h].label = "Sample data (first 3 rows):"
    /\ SearchedBlock(t_sender_addresses)
    /\ SearchedBlock(t_subjects)
====
